---- MODULE Spec2Model ----
(***************************************************************************)
(* State-machine model of the worker pool of rust_webserver (src/lib.rs)   *)
(* and of the way src/main.rs drives it.                                   *)
(*                                                                         *)
(* The pool owns a Vec of workers and the Sender of an mpsc channel; every *)
(* worker thread shares the Receiver behind Arc<Mutex<..>> and runs        *)
(*     while let Ok(job) = receiver.lock().unwrap().recv() { job(); }      *)
(* The MutexGuard is a temporary of the `while let` scrutinee, so it is    *)
(* dropped at the end of the loop body (or when the loop is left), not     *)
(* when recv() returns.                                                    *)
(***************************************************************************)
EXTENDS Naturals, Integers, Sequences, FiniteSets, TLC

\* ---------------------------------------------------------------- bounds
MaxSize == 2        \* largest `size` handed to ThreadPool::new
MaxJobs == 3        \* number of closures handed to execute in one run
NumCallers == 2     \* threads calling execute through &ThreadPool

\* ------------------------------------------------- program constants
PoolSize == 4       \* ThreadPool::new(4) in main
SleepSecs == 5      \* Duration::from_secs(5) of GET /sleep

Callers == 1..NumCallers
JobIds == 1..MaxJobs
NoHolder == 0 - 1   \* the mutex is free
NoJob == 0          \* no closure held

VARIABLES
    size,        \* the argument of ThreadPool::new
    poolState,   \* "init" | "failed" | "constructing" | "open" | "dropped"
    chanCreated, \* mpsc::channel() has been called
    workers,     \* ThreadPool.workers: the Worker ids pushed so far
    pc,          \* per spawned thread: its position in the worker closure
    lock,        \* holder of the Mutex around the Receiver
    poisoned,    \* the Mutex is poisoned
    queue,       \* the channel's buffer
    cur,         \* per thread: the job bound by `while let Ok(job)`
    cpc,         \* per caller: "idle", or "panicked" by a failed execute
    nextJob,     \* identity of the next closure created
    kind,        \* per job: "ok" (returns), "sleep" (sleeps, then returns)
                 \* or "fault" (panics)
    owner,       \* per job: the caller that created it
    sent,        \* jobs for which send returned Ok
    rejected,    \* jobs for which send returned Err
    deliveredTo, \* per job: the threads whose recv returned it
    runs,        \* per job: number of times job() was called
    returned,    \* jobs whose call returned
    faulted,     \* jobs whose call panicked
    discarded,   \* jobs dropped with the Receiver
    now,         \* elapsed time units
    wakeAt,      \* per job: the time at which its thread::sleep ends
    doneAt       \* per job: the time at which its call returned

vars == <<size, poolState, chanCreated, workers, pc, lock, poisoned, queue,
          cur, cpc, nextJob, kind, owner, sent, rejected, deliveredTo,
          runs, returned, faulted, discarded, now, wakeAt, doneAt>>

\* ------------------------------------------------------------- helpers
Threads == DOMAIN pc

Terminated == {"stopped", "panicked"}

RECURSIVE SeqToSet(_)
SeqToSet(s) == IF s = <<>> THEN {} ELSE {Head(s)} \cup SeqToSet(Tail(s))

\* The Sender lives in the ThreadPool value.
SenderAlive == poolState \in {"constructing", "open"}

\* Arc<Mutex<Receiver>>: one clone per worker closure, plus the local of new.
ArcHeld(pcs, ps) ==
    \/ ps = "constructing"
    \/ \E t \in DOMAIN pcs : pcs[t] \notin Terminated

ReceiverAlive == chanCreated /\ ArcHeld(pc, poolState)

\* Dropping the last Arc drops the Receiver, which discards what is buffered.
QueueAfter(q, pcs, ps) == IF ArcHeld(pcs, ps) THEN q ELSE <<>>
DiscardedAfter(q, pcs, ps) ==
    IF ArcHeld(pcs, ps) THEN discarded ELSE discarded \cup SeqToSet(q)

\* The time the call of job j takes: thread::sleep for GET /sleep.
Dur(j) == IF kind[j] = "sleep" THEN SleepSecs ELSE 0

\* ---------------------------------------------------------------- Init
Init ==
    /\ size \in 0..MaxSize
    /\ poolState = "init"
    /\ chanCreated = FALSE
    /\ workers = <<>>
    /\ pc = <<>>
    /\ lock = NoHolder
    /\ poisoned = FALSE
    /\ queue = <<>>
    /\ cur = <<>>
    /\ cpc = [c \in Callers |-> "idle"]
    /\ nextJob = 1
    /\ kind = [j \in JobIds |-> "none"]
    /\ owner = [j \in JobIds |-> 0]
    /\ sent = {}
    /\ rejected = {}
    /\ deliveredTo = [j \in JobIds |-> {}]
    /\ runs = [j \in JobIds |-> 0]
    /\ returned = {}
    /\ faulted = {}
    /\ discarded = {}
    /\ now = 0
    /\ wakeAt = [j \in JobIds |-> 0]
    /\ doneAt = [j \in JobIds |-> 0]

\* -------------------------------------------------------- ThreadPool::new
\* assert!(size > 0); let (sender, receiver) = mpsc::channel(); ...
NewNoAssert ==
    /\ poolState = "init"
    /\ poolState' = "constructing"
    /\ chanCreated' = TRUE
    /\ UNCHANGED <<size, workers, pc, lock, poisoned, queue, cur, cpc, nextJob, kind, owner, sent, rejected, deliveredTo, runs,
                   returned, faulted, discarded>>
    /\ UNCHANGED <<now, wakeAt, doneAt>>

New ==
    /\ poolState = "init"
    /\ IF size > 0
       THEN poolState' = "constructing" /\ chanCreated' = TRUE
       ELSE poolState' = "failed" /\ chanCreated' = FALSE
    /\ UNCHANGED <<size, workers, pc, lock, poisoned, queue, cur, cpc, nextJob, kind, owner, sent, rejected, deliveredTo, runs,
                   returned, faulted, discarded>>
    /\ UNCHANGED <<now, wakeAt, doneAt>>

\* The id the loop `for id in 0..size` is at.
FirstIdOne == Len(workers) + 1

NextId == Len(workers)

\* workers.push(Worker::new(id, Arc::clone(&receiver))): thread::spawn
SpawnWorker ==
    /\ poolState = "constructing"
    /\ Len(workers) < size
    /\ workers' = Append(workers, NextId)
    /\ pc' = [t \in Threads \cup {NextId} |->
                 IF t = NextId THEN "spawned" ELSE pc[t]]
    /\ cur' = [t \in Threads \cup {NextId} |->
                 IF t = NextId THEN NoJob ELSE cur[t]]
    /\ UNCHANGED <<size, poolState, chanCreated, lock, poisoned, queue, cpc,
                   nextJob, kind, owner, sent, rejected, deliveredTo,
                   runs, returned, faulted, discarded>>
    /\ UNCHANGED <<now, wakeAt, doneAt>>

\* ThreadPool { workers, sender }: new returns, its local Arc is dropped.
NewReturn ==
    /\ poolState = "constructing"
    /\ Len(workers) = size
    /\ poolState' = "open"
    /\ queue' = QueueAfter(queue, pc, "open")
    /\ discarded' = DiscardedAfter(queue, pc, "open")
    /\ UNCHANGED <<size, chanCreated, workers, pc, lock, poisoned, cur, cpc,
                   nextJob, kind, owner, sent, rejected, deliveredTo,
                   runs, returned, faulted>>
    /\ UNCHANGED <<now, wakeAt, doneAt>>

\* ------------------------------------------------- the worker's closure
\* The spawned thread starts running the closure.
ThreadStart(w) ==
    /\ w \in Threads
    /\ pc[w] = "spawned"
    /\ pc' = [pc EXCEPT ![w] = "lock"]
    /\ UNCHANGED <<size, poolState, chanCreated, workers, lock, poisoned,
                   queue, cur, cpc, nextJob, kind, owner, sent,
                   rejected, deliveredTo, runs, returned, faulted, discarded>>
    /\ UNCHANGED <<now, wakeAt, doneAt>>

\* A lock() that does not wait for the guard of another thread.
WorkerLockNoMutex(w) ==
    /\ w \in Threads
    /\ pc[w] = "lock"
    /\ IF poisoned
       THEN /\ pc' = [pc EXCEPT ![w] = "panicked"]
            /\ lock' = lock
            /\ queue' = QueueAfter(queue, pc', poolState)
            /\ discarded' = DiscardedAfter(queue, pc', poolState)
       ELSE /\ pc' = [pc EXCEPT ![w] = "recv"]
            /\ lock' = w
            /\ UNCHANGED <<queue, discarded>>
    /\ UNCHANGED <<size, poolState, chanCreated, workers, poisoned, cur, cpc,
                   nextJob, kind, owner, sent, rejected, deliveredTo,
                   runs, returned, faulted>>
    /\ UNCHANGED <<now, wakeAt, doneAt>>

\* A lock() that recovers the guard of a poisoned mutex (into_inner).
WorkerLockIgnorePoison(w) ==
    /\ w \in Threads
    /\ pc[w] = "lock"
    /\ lock = NoHolder
    /\ pc' = [pc EXCEPT ![w] = "recv"]
    /\ lock' = w
    /\ UNCHANGED <<size, poolState, chanCreated, workers, poisoned, queue,
                   cur, cpc, nextJob, kind, owner, sent, rejected,
                   deliveredTo, runs, returned, faulted, discarded>>
    /\ UNCHANGED <<now, wakeAt, doneAt>>

\* receiver.lock().unwrap(): blocks while another thread holds the guard;
\* a poisoned mutex yields Err and unwrap panics (the guard inside the error
\* is dropped by the unwinding, so the mutex is free again).
WorkerLock(w) ==
    /\ w \in Threads
    /\ pc[w] = "lock"
    /\ lock = NoHolder
    /\ IF poisoned
       THEN /\ pc' = [pc EXCEPT ![w] = "panicked"]
            /\ lock' = NoHolder
            /\ queue' = QueueAfter(queue, pc', poolState)
            /\ discarded' = DiscardedAfter(queue, pc', poolState)
       ELSE /\ pc' = [pc EXCEPT ![w] = "recv"]
            /\ lock' = w
            /\ UNCHANGED <<queue, discarded>>
    /\ UNCHANGED <<size, poolState, chanCreated, workers, poisoned, cur, cpc,
                   nextJob, kind, owner, sent, rejected, deliveredTo,
                   runs, returned, faulted>>
    /\ UNCHANGED <<now, wakeAt, doneAt>>

\* What recv() leaves in the buffer when it returns Ok(job).
RecvRestPeek(q) == q

RecvRest(q) == Tail(q)

\* .recv() under the guard: Ok(job) takes the oldest buffered job; with an
\* empty buffer it blocks while the Sender lives and is Err once it is gone,
\* which ends the loop: the guard is dropped and the thread exits.
WorkerRecv(w) ==
    /\ w \in Threads
    /\ pc[w] = "recv"
    /\ lock = w
    /\ IF queue # <<>>
       THEN /\ cur' = [cur EXCEPT ![w] = Head(queue)]
            /\ queue' = RecvRest(queue)
            /\ deliveredTo' = [deliveredTo EXCEPT
                                 ![Head(queue)] = @ \cup {w}]
            /\ pc' = [pc EXCEPT ![w] = "got"]
            /\ UNCHANGED <<lock, discarded>>
       ELSE /\ ~SenderAlive
            /\ pc' = [pc EXCEPT ![w] = "stopped"]
            /\ lock' = NoHolder
            /\ queue' = QueueAfter(queue, pc', poolState)
            /\ discarded' = DiscardedAfter(queue, pc', poolState)
            /\ UNCHANGED <<cur, deliveredTo>>
    /\ UNCHANGED <<size, poolState, chanCreated, workers, poisoned, cpc, nextJob, kind, owner, sent, rejected, runs, returned,
                   faulted>>
    /\ UNCHANGED <<now, wakeAt, doneAt>>

\* A loop body that hands the job to a detached thread instead of calling it.
JobStartNoWait(w) ==
    /\ w \in Threads
    /\ pc[w] = "got"
    /\ runs' = [runs EXCEPT ![cur[w]] = @ + 1]
    /\ pc' = [pc EXCEPT ![w] = "lock"]
    /\ cur' = [cur EXCEPT ![w] = NoJob]
    /\ lock' = NoHolder
    /\ UNCHANGED <<size, poolState, chanCreated, workers, poisoned, queue,
                   cpc, nextJob, kind, owner, sent, rejected,
                   deliveredTo, returned, faulted, discarded>>
    /\ UNCHANGED <<now, wakeAt, doneAt>>

\* A loop that binds the job first (let job = ...recv()), so that the guard
\* is dropped before job() is entered.
JobStartReleasing(w) ==
    /\ w \in Threads
    /\ pc[w] = "got"
    /\ runs' = [runs EXCEPT ![cur[w]] = @ + 1]
    /\ pc' = [pc EXCEPT ![w] = "exec"]
    /\ lock' = NoHolder
    /\ UNCHANGED <<size, poolState, chanCreated, workers, poisoned,
                   queue, cur, cpc, nextJob, kind, owner, sent,
                   rejected, deliveredTo, returned, faulted, discarded>>
    /\ wakeAt' = [wakeAt EXCEPT ![cur[w]] = now + Dur(cur[w])]
    /\ UNCHANGED <<now, doneAt>>

\* println!("Worker {id} got a job, executing..."); job() is entered.
\* The guard taken in the `while let` condition is still alive.
JobStart(w) ==
    /\ w \in Threads
    /\ pc[w] = "got"
    /\ runs' = [runs EXCEPT ![cur[w]] = @ + 1]
    /\ pc' = [pc EXCEPT ![w] = "exec"]
    /\ UNCHANGED <<size, poolState, chanCreated, workers, lock, poisoned,
                   queue, cur, cpc, nextJob, kind, owner, sent,
                   rejected, deliveredTo, returned, faulted, discarded>>
    /\ wakeAt' = [wakeAt EXCEPT ![cur[w]] = now + Dur(cur[w])]
    /\ UNCHANGED <<now, doneAt>>

\* job() returns; the loop body ends, the guard is dropped, the loop goes
\* back to its condition.
JobReturn(w) ==
    /\ w \in Threads
    /\ pc[w] = "exec"
    /\ kind[cur[w]] \in {"ok", "sleep"}
    /\ now >= wakeAt[cur[w]]
    /\ returned' = returned \cup {cur[w]}
    /\ cur' = [cur EXCEPT ![w] = NoJob]
    /\ pc' = [pc EXCEPT ![w] = "lock"]
    /\ lock' = IF lock = w THEN NoHolder ELSE lock
    /\ UNCHANGED <<size, poolState, chanCreated, workers, poisoned, queue,
                   cpc, nextJob, kind, owner, sent, rejected,
                   deliveredTo, runs, faulted, discarded>>
    /\ doneAt' = [doneAt EXCEPT ![cur[w]] = now]
    /\ UNCHANGED <<now, wakeAt>>

\* job() panics: the thread unwinds; the guard is dropped while panicking,
\* which poisons the mutex; the closure's Arc is dropped.
JobPanic(w) ==
    /\ w \in Threads
    /\ pc[w] = "exec"
    /\ kind[cur[w]] = "fault"
    /\ faulted' = faulted \cup {cur[w]}
    /\ cur' = [cur EXCEPT ![w] = NoJob]
    /\ pc' = [pc EXCEPT ![w] = "panicked"]
    /\ poisoned' = (poisoned \/ lock = w)
    /\ lock' = IF lock = w THEN NoHolder ELSE lock
    /\ queue' = QueueAfter(queue, pc', poolState)
    /\ discarded' = DiscardedAfter(queue, pc', poolState)
    /\ UNCHANGED <<size, poolState, chanCreated, workers, cpc, nextJob,
                   kind, owner, sent, rejected, deliveredTo, runs, returned>>
    /\ UNCHANGED <<now, wakeAt, doneAt>>

WorkerStep(w) ==
    \/ ThreadStart(w)
    \/ WorkerLock(w)
    \/ WorkerRecv(w)
    \/ JobStart(w)
    \/ JobReturn(w)
    \/ JobPanic(w)

\* ---------------------------------------------------- ThreadPool::execute
\* An execute that ignores the result of send.
ExecuteIgnoreErr(c, k) ==
    /\ poolState = "open"
    /\ cpc[c] = "idle"
    /\ nextJob <= MaxJobs
    /\ kind' = [kind EXCEPT ![nextJob] = k]
    /\ owner' = [owner EXCEPT ![nextJob] = c]
    /\ nextJob' = nextJob + 1
    /\ IF ReceiverAlive
       THEN /\ queue' = Append(queue, nextJob)
            /\ sent' = sent \cup {nextJob}
            /\ UNCHANGED rejected
       ELSE /\ rejected' = rejected \cup {nextJob}
            /\ UNCHANGED <<queue, sent>>
    /\ UNCHANGED <<size, poolState, chanCreated, workers, pc, lock, poisoned,
                   cur, cpc, deliveredTo, runs, returned, faulted, discarded>>
    /\ UNCHANGED <<now, wakeAt, doneAt>>

\* An execute over a bounded channel (sync_channel(1)): send waits for room.
ExecuteBounded(c, k) ==
    /\ poolState = "open"
    /\ cpc[c] = "idle"
    /\ nextJob <= MaxJobs
    /\ ReceiverAlive => Len(queue) < 1
    /\ kind' = [kind EXCEPT ![nextJob] = k]
    /\ owner' = [owner EXCEPT ![nextJob] = c]
    /\ nextJob' = nextJob + 1
    /\ IF ReceiverAlive
       THEN /\ queue' = Append(queue, nextJob)
            /\ sent' = sent \cup {nextJob}
            /\ UNCHANGED <<rejected, cpc>>
       ELSE /\ rejected' = rejected \cup {nextJob}
            /\ cpc' = [cpc EXCEPT ![c] = "panicked"]
            /\ UNCHANGED <<queue, sent>>
    /\ UNCHANGED <<size, poolState, chanCreated, workers, pc, lock, poisoned,
                   cur, deliveredTo, runs, returned, faulted, discarded>>
    /\ UNCHANGED <<now, wakeAt, doneAt>>

\* An execute that puts the job at the front of the buffer.
ExecutePushFront(c, k) ==
    /\ poolState = "open"
    /\ cpc[c] = "idle"
    /\ nextJob <= MaxJobs
    /\ kind' = [kind EXCEPT ![nextJob] = k]
    /\ owner' = [owner EXCEPT ![nextJob] = c]
    /\ nextJob' = nextJob + 1
    /\ IF ReceiverAlive
       THEN /\ queue' = <<nextJob>> \o queue
            /\ sent' = sent \cup {nextJob}
            /\ UNCHANGED <<rejected, cpc>>
       ELSE /\ rejected' = rejected \cup {nextJob}
            /\ cpc' = [cpc EXCEPT ![c] = "panicked"]
            /\ UNCHANGED <<queue, sent>>
    /\ UNCHANGED <<size, poolState, chanCreated, workers, pc, lock, poisoned,
                   cur, deliveredTo, runs, returned, faulted, discarded>>
    /\ UNCHANGED <<now, wakeAt, doneAt>>

\* An execute that also spawns a thread for the job (thread per request).
ExecuteSpawnPerJob(c, k) ==
    /\ poolState = "open"
    /\ cpc[c] = "idle"
    /\ nextJob <= MaxJobs
    /\ kind' = [kind EXCEPT ![nextJob] = k]
    /\ owner' = [owner EXCEPT ![nextJob] = c]
    /\ nextJob' = nextJob + 1
    /\ IF ReceiverAlive
       THEN /\ queue' = Append(queue, nextJob)
            /\ sent' = sent \cup {nextJob}
            /\ UNCHANGED <<rejected, cpc>>
       ELSE /\ rejected' = rejected \cup {nextJob}
            /\ cpc' = [cpc EXCEPT ![c] = "panicked"]
            /\ UNCHANGED <<queue, sent>>
    /\ pc' = [t \in Threads \cup {size + nextJob} |->
                 IF t \in Threads THEN pc[t] ELSE "spawned"]
    /\ cur' = [t \in Threads \cup {size + nextJob} |->
                 IF t \in Threads THEN cur[t] ELSE NoJob]
    /\ UNCHANGED <<size, poolState, chanCreated, workers, lock, poisoned,
                   deliveredTo, runs, returned, faulted, discarded>>
    /\ UNCHANGED <<now, wakeAt, doneAt>>

\* let job = Box::new(f); self.sender.send(job).unwrap();
\* send is Ok while the Receiver exists (the job is appended to the
\* unbounded buffer); it is Err once the Receiver is gone, and unwrap
\* panics in the caller.
Execute(c, k) ==
    /\ poolState = "open"
    /\ cpc[c] = "idle"
    /\ nextJob <= MaxJobs
    /\ kind' = [kind EXCEPT ![nextJob] = k]
    /\ owner' = [owner EXCEPT ![nextJob] = c]
    /\ nextJob' = nextJob + 1
    /\ IF ReceiverAlive
       THEN /\ queue' = Append(queue, nextJob)
            /\ sent' = sent \cup {nextJob}
            /\ UNCHANGED <<rejected, cpc>>
       ELSE /\ rejected' = rejected \cup {nextJob}
            /\ cpc' = [cpc EXCEPT ![c] = "panicked"]
            /\ UNCHANGED <<queue, sent>>
    /\ UNCHANGED <<size, poolState, chanCreated, workers, pc, lock, poisoned,
                   cur, deliveredTo, runs, returned, faulted, discarded>>
    /\ UNCHANGED <<now, wakeAt, doneAt>>

\* The ThreadPool value goes out of scope: the Sender is dropped. There is no
\* Drop impl, so the workers are not joined.
DropPool ==
    /\ poolState = "open"
    /\ poolState' = "dropped"
    /\ UNCHANGED <<size, chanCreated, workers, pc, lock, poisoned, queue, cur,
                   cpc, nextJob, kind, owner, sent, rejected,
                   deliveredTo, runs, returned, faulted, discarded>>
    /\ UNCHANGED <<now, wakeAt, doneAt>>

\* ---------------------------------------------------------- specification
Next ==
    \/ New
    \/ SpawnWorker
    \/ NewReturn
    \/ \E w \in Threads : ThreadStart(w)
    \/ \E w \in Threads : WorkerLock(w)
    \/ \E w \in Threads : WorkerRecv(w)
    \/ \E w \in Threads : JobStart(w)
    \/ \E w \in Threads : JobReturn(w)
    \/ \E w \in Threads : JobPanic(w)
    \/ \E c \in Callers, k \in {"ok", "fault"} : Execute(c, k)
    \/ DropPool

Spec == Init /\ [][Next]_vars

\* Threads are scheduled fairly: a worker thread that can take a step
\* eventually takes one, and a job that returns does return.
FairSpec == Spec /\ \A w \in 0..(MaxSize - 1) : WF_vars(WorkerStep(w))

\* ------------------------------------------------- derived notions
\* Worker threads that have not terminated.
LiveWorkers == {w \in Threads : pc[w] \notin Terminated}

\* Jobs whose call has been entered and has neither returned nor panicked.
Running == {j \in JobIds : runs[j] >= 1 /\ j \notin (returned \cup faulted)}

\* Number of times job j sits in the channel's buffer.
InQueue(j) == Cardinality({i \in 1..Len(queue) : queue[i] = j})

\* A worker that is alive and holds no job.
Free(w) == pc[w] \in {"spawned", "lock", "recv"}

\* A worker that cannot take its next step: lock() waits for the guard of
\* another thread, or recv() waits on an empty buffer.
Blocked(w) ==
    \/ pc[w] = "lock" /\ lock # NoHolder
    \/ pc[w] = "recv" /\ queue = <<>> /\ SenderAlive

\* ------------------------------------------------------------------ C1
\* C1: every job enqueued by execute is eventually executed, and executed
\* exactly once, under fair scheduling of the workers and while the pool
\* stays open.
C1_EveryJobRunsExactlyOnce ==
    \A j \in JobIds :
        /\ [](runs[j] <= 1)
        /\ [](j \in sent => <>(runs[j] = 1 \/ poolState # "open"))

\* ------------------------------------------------------------------ C2
\* C2: a job is delivered to at most one worker and started at most once;
\* while the Receiver exists an enqueued job is either still in the queue
\* (once) or has been delivered to exactly one worker, which holds it to run
\* it or has entered it; a job is discarded only with the Receiver.
C2_ExactlyOnceDelivery ==
    \A j \in JobIds :
        /\ Cardinality(deliveredTo[j]) <= 1
        /\ runs[j] <= 1
        /\ j \notin sent => InQueue(j) = 0 /\ deliveredTo[j] = {}
        /\ j \in sent =>
              \/ InQueue(j) + Cardinality(deliveredTo[j]) = 1
                    /\ j \notin discarded
              \/ InQueue(j) = 0 /\ deliveredTo[j] = {}
                    /\ j \in discarded /\ LiveWorkers = {}
        /\ deliveredTo[j] # {} =>
              \/ runs[j] = 1
              \/ \E w \in deliveredTo[j] : pc[w] = "got" /\ cur[w] = j

\* Two jobs have been delivered to, and run by, two different workers.
C2_Witness ==
    \E i, j \in JobIds :
        /\ i # j
        /\ runs[i] = 1 /\ runs[j] = 1
        /\ deliveredTo[i] # deliveredTo[j]

\* ------------------------------------------------------------------ C3
\* C3: a worker that is executing a job does not hold the lock on the
\* shared receiver.
C3_NoLockWhileExecuting ==
    \A w \in Threads : pc[w] = "exec" => lock # w

\* ------------------------------------------------------------------ C4
\* C4: in a pool of size >= 2, while a job is executing, a job is pending
\* and some worker is free, a free worker can take its next step towards
\* the pending job without waiting for the executing job to finish.
C4_SlowJobDoesNotBlock ==
    (/\ size >= 2
     /\ \E w \in Threads : pc[w] = "exec"
     /\ queue # <<>>
     /\ \E v \in Threads : Free(v))
    => \E v \in Threads : Free(v) /\ ~Blocked(v)

\* ------------------------------------------------------------------ C5
\* C5: at most size jobs are in execution, and while size jobs are in
\* execution no further job is started.
C5_ConcurrencyCeiling ==
    /\ [](Cardinality(Running) <= size)
    /\ [][Cardinality(Running) = size => runs' = runs]_vars

\* A pool of one worker is executing a job while another job is pending.
C5_Witness ==
    /\ size = 1
    /\ Cardinality(Running) = size
    /\ queue # <<>>

\* ------------------------------------------------------------------ C6
\* C6: a worker thread terminates by a fault only when the job it is
\* executing faults, and that step leaves every other worker, the set of
\* threads, the pool and the callers as they were.
C6_FaultConfinedToItsWorker ==
    [][\A w \in Threads :
          (pc[w] # "panicked" /\ pc'[w] = "panicked") =>
              /\ pc[w] = "exec" /\ kind[cur[w]] = "fault"
              /\ (DOMAIN pc') = (DOMAIN pc)
              /\ \A v \in Threads \ {w} : pc'[v] = pc[v]
              /\ cpc' = cpc
              /\ poolState' = poolState]_vars

\* ------------------------------------------------------------------ C7
\* C7: a job fault in a pool with another live worker leaves the pending
\* jobs in the queue and the receiver usable (its mutex not poisoned), and
\* every enqueued job is still eventually dequeued while a worker lives.
C7_FaultDoesNotStopService ==
    /\ [][\A w \in Threads :
             (pc[w] = "exec" /\ pc'[w] = "panicked"
                             /\ LiveWorkers \ {w} # {}) =>
                 queue' = queue /\ ~poisoned']_vars
    /\ \A j \in JobIds :
          [](j \in sent /\ faulted # {} /\ LiveWorkers # {}
               => <>(deliveredTo[j] # {} \/ LiveWorkers = {}))

\* ------------------------------------------------------------------ C8
\* C8 as stated: when the first job is enqueued, new has created the size
\* workers 0..size-1 and each of them is waiting at the receiver.
C8_AllWaitingBeforeFirstSubmit ==
    [][(sent = {} /\ sent' # {}) =>
          /\ workers = [i \in 1..size |-> i - 1]
          /\ \A w \in 0..(size - 1) :
                w \in Threads /\ pc[w] \in {"lock", "recv"}]_vars

\* C8 amended: once execute has been called, new has created exactly size
\* workers with the distinct ids 0..size-1, each with a thread of its own
\* that has been spawned.
C8_AllSpawnedBeforeFirstSubmit ==
    nextJob > 1 =>
        /\ size > 0
        /\ workers = [i \in 1..size |-> i - 1]
        /\ Threads = 0..(size - 1)
        /\ Cardinality(Threads) = size

\* A job has been enqueued while a worker thread has not started to run.
C8_Witness ==
    /\ size = 2
    /\ sent # {}
    /\ \E w \in Threads : pc[w] = "spawned"

\* ------------------------------------------------------------------ C9
\* C9: new(0) fails at the assertion: no pool, no channel, no worker.
C9_NewZeroFails ==
    size = 0 =>
        /\ poolState \in {"init", "failed"}
        /\ ~chanCreated
        /\ workers = <<>>
        /\ Threads = {}

\* new(0) has been called and has failed.
C9_Witness == size = 0 /\ poolState = "failed"

\* ----------------------------------------------------------------- C10
\* C10: execute enqueues the job and returns when some worker
\* thread is alive; when none is, nothing is enqueued and the caller
\* panics.
C10_ExecuteOutcome ==
    [][\A c \in Callers :
          (nextJob' # nextJob /\ owner'[nextJob] = c) =>
              IF LiveWorkers # {}
              THEN /\ queue' = Append(queue, nextJob)
                   /\ cpc'[c] = "idle"
              ELSE /\ queue' = queue
                   /\ nextJob \notin sent'
                   /\ cpc'[c] = "panicked"]_vars

\* One execute has enqueued its job and a later one has panicked.
C10_Witness ==
    /\ sent # {}
    /\ rejected # {}
    /\ \E c \in Callers : cpc[c] = "panicked"

\* ----------------------------------------------------------------- C11
\* C11: while the pool is open a caller can always complete execute,
\* whatever the workers are doing and however many jobs are pending; when
\* the Receiver exists the call appends the job to the queue and changes
\* nothing of the workers or of the jobs in progress.
C11_ExecuteNeverBlocks ==
    /\ [](\A c \in Callers :
            (poolState = "open" /\ cpc[c] = "idle" /\ nextJob <= MaxJobs)
                => ENABLED Execute(c, "ok"))
    /\ [][(nextJob' # nextJob /\ LiveWorkers # {}) =>
             /\ queue' = Append(queue, nextJob)
             /\ Len(queue') = Len(queue) + 1
             /\ pc' = pc /\ cur' = cur /\ lock' = lock
             /\ runs' = runs /\ returned' = returned]_vars

\* Every worker of the pool is executing and two jobs are pending.
C11_Witness ==
    /\ poolState = "open"
    /\ size >= 1
    /\ \A w \in 0..(size - 1) : w \in Threads /\ pc[w] = "exec"
    /\ Len(queue) >= 2

\* ----------------------------------------------------------------- C12
\* C12: of two jobs enqueued by the same caller, the later one is dequeued
\* by a worker only after the earlier one has been dequeued.
C12_FifoPerCaller ==
    \A a, b \in JobIds :
        (a < b /\ a \in sent /\ b \in sent /\ owner[a] = owner[b]) =>
            /\ deliveredTo[b] # {} => deliveredTo[a] # {}
            /\ InQueue(b) = 0 => InQueue(a) = 0

\* Two jobs of one caller have both been dequeued, a job of another caller
\* having been enqueued between them.
C12_Witness ==
    \E a, b, x \in JobIds :
        /\ a < x /\ x < b
        /\ owner[a] = owner[b] /\ owner[x] # owner[a] /\ owner[x] # 0
        /\ deliveredTo[a] # {} /\ deliveredTo[b] # {}

\* ----------------------------------------------------------------- C13
\* C13: in a pool of one worker a job is started only after every job
\* enqueued before it has finished.
C13_OneWorkerRunsInOrder ==
    size = 1 =>
        \A a, b \in JobIds :
            (a < b /\ a \in sent /\ runs[b] >= 1) =>
                a \in (returned \cup faulted)

\* A pool of one worker has started the second job after the first returned.
C13_Witness ==
    /\ size = 1
    /\ \E a, b \in JobIds : a < b /\ a \in returned /\ runs[b] = 1

\* ----------------------------------------------------------------- C14
\* The scenario of main: a pool of PoolSize workers and one caller, the
\* accept loop, that submits PoolSize jobs that return at once and then
\* PoolSize jobs that sleep SleepSecs (GET /sleep). Every step but the
\* sleep takes no time: time passes only when nothing else can happen.
ScenarioJobIds == 1..(2 * PoolSize)

ScenarioInit ==
    /\ size = PoolSize
    /\ poolState = "init"
    /\ chanCreated = FALSE
    /\ workers = <<>>
    /\ pc = <<>>
    /\ lock = NoHolder
    /\ poisoned = FALSE
    /\ queue = <<>>
    /\ cur = <<>>
    /\ cpc = [c \in Callers |-> "idle"]
    /\ nextJob = 1
    /\ kind = [j \in ScenarioJobIds |-> "none"]
    /\ owner = [j \in ScenarioJobIds |-> 0]
    /\ sent = {}
    /\ rejected = {}
    /\ deliveredTo = [j \in ScenarioJobIds |-> {}]
    /\ runs = [j \in ScenarioJobIds |-> 0]
    /\ returned = {}
    /\ faulted = {}
    /\ discarded = {}
    /\ now = 0
    /\ wakeAt = [j \in ScenarioJobIds |-> 0]
    /\ doneAt = [j \in ScenarioJobIds |-> 0]

\* pool.execute(|| handle_connection(stream)) for the next connection.
ScenarioExecute ==
    /\ poolState = "open"
    /\ cpc[1] = "idle"
    /\ nextJob \in ScenarioJobIds
    /\ kind' = [kind EXCEPT
                  ![nextJob] = IF nextJob <= PoolSize THEN "ok" ELSE "sleep"]
    /\ owner' = [owner EXCEPT ![nextJob] = 1]
    /\ nextJob' = nextJob + 1
    /\ IF ReceiverAlive
       THEN /\ queue' = Append(queue, nextJob)
            /\ sent' = sent \cup {nextJob}
            /\ UNCHANGED <<rejected, cpc>>
       ELSE /\ rejected' = rejected \cup {nextJob}
            /\ cpc' = [cpc EXCEPT ![1] = "panicked"]
            /\ UNCHANGED <<queue, sent>>
    /\ UNCHANGED <<size, poolState, chanCreated, workers, pc, lock, poisoned,
                   cur, deliveredTo, runs, returned, faulted, discarded>>
    /\ UNCHANGED <<now, wakeAt, doneAt>>

\* The steps of the scenario that take no time.
ScenarioUrgent ==
    \/ New
    \/ SpawnWorker
    \/ NewReturn
    \/ \E w \in Threads : ThreadStart(w)
    \/ \E w \in Threads : WorkerLock(w)
    \/ \E w \in Threads : WorkerRecv(w)
    \/ \E w \in Threads : JobStart(w)
    \/ \E w \in Threads : JobReturn(w)
    \/ ScenarioExecute

\* thread::sleep: a time unit passes while some job sleeps and no thread
\* has a step to take.
Tick ==
    /\ \E w \in Threads : pc[w] = "exec" /\ now < wakeAt[cur[w]]
    /\ ~ENABLED ScenarioUrgent
    /\ now' = now + 1
    /\ UNCHANGED <<size, poolState, chanCreated, workers, pc, lock, poisoned,
                   queue, cur, cpc, nextJob, kind, owner, sent, rejected,
                   deliveredTo, runs, returned, faulted, discarded, wakeAt,
                   doneAt>>

ScenarioNext ==
    \/ ScenarioUrgent
    \/ Tick

ScenarioSpec == ScenarioInit /\ [][ScenarioNext]_vars

\* C14: in the scenario every instant job is recorded complete before the
\* SleepSecs mark, and once the SleepSecs mark has passed all the jobs,
\* instant and sleeping, have completed.
C14_ScenarioTiming ==
    /\ \A j \in returned : kind[j] = "ok" => doneAt[j] < SleepSecs
    /\ now > SleepSecs => returned = ScenarioJobIds

\* ----------------------------------------------------------------- C15
\* C15: once new has returned, the pool has exactly the size threads that
\* new spawned; execute, and every later step, leaves the workers and the
\* set of threads as they are.
C15_WorkerSetFixed ==
    /\ [](poolState \in {"open", "dropped"} =>
             Len(workers) = size /\ Cardinality(Threads) = size)
    /\ [][nextJob' # nextJob =>
             workers' = workers /\ pc' = pc /\ cur' = cur]_vars
    /\ [][(poolState \in {"open", "dropped"}) =>
             workers' = workers /\ (DOMAIN pc') = (DOMAIN pc)]_vars

\* A pool of two workers has run two jobs to their end.
C15_Witness ==
    /\ size = 2
    /\ Cardinality(Threads) = 2
    /\ Cardinality(returned) >= 2

\* ----------------------------------------------------------------- C16
\* Threads that own a live MutexGuard of the receiver.
GuardHolders == {w \in Threads : pc[w] \in {"recv", "got", "exec"}}

\* C16: at most one worker is in recv, a worker in recv holds the lock, the
\* lock has at most one holder, and a job is handed only to the worker that
\* is in recv holding the lock.
C16_DequeueMutualExclusion ==
    /\ [](/\ Cardinality({w \in Threads : pc[w] = "recv"}) <= 1
          /\ \A w \in Threads : pc[w] = "recv" => lock = w
          /\ Cardinality(GuardHolders) <= 1)
    /\ [][\A j \in JobIds :
             deliveredTo'[j] # deliveredTo[j] =>
                 \E w \in Threads :
                     /\ pc[w] = "recv" /\ lock = w
                     /\ deliveredTo'[j] = deliveredTo[j] \cup {w}]_vars

\* One worker is taking a pending job while the other waits for the lock.
C16_Witness ==
    \E w, v \in Threads :
        /\ w # v
        /\ pc[w] = "recv" /\ lock = w /\ queue # <<>>
        /\ pc[v] = "lock"

\* ----------------------------------------------------------------- C17
\* A worker blocked in recv() on an empty buffer.
IdleInRecv(w) == pc[w] = "recv" /\ queue = <<>> /\ SenderAlive

\* C17 as stated: a worker blocked in receive on an empty queue does not
\* hold the exclusive access to the receiver.
C17_IdleWaitHoldsNoLock ==
    \A w \in Threads : IdleInRecv(w) => lock # w

\* C17 amended: a worker blocked in receive on an empty queue holds the
\* receiver lock; no other worker is in receive, and the others that have
\* reached the loop wait blocked on the lock.
C17_IdleWaitHoldsLock ==
    \A w \in Threads :
        IdleInRecv(w) =>
            /\ lock = w
            /\ \A v \in Threads \ {w} :
                  /\ pc[v] # "recv"
                  /\ pc[v] = "lock" => Blocked(v)

\* One worker waits in recv on an empty queue, the other waits for the lock.
C17_Witness ==
    \E w, v \in Threads :
        /\ w # v
        /\ IdleInRecv(w)
        /\ pc[v] = "lock"

\* ----------------------------------------------------------------- C18
\* C18: a worker stops only when recv finds the buffer empty and the Sender
\* dropped; once the Sender is dropped no buffered job is discarded, every
\* buffered job is still executed, and every worker thread ends.
C18_DrainThenStop ==
    /\ [][\A w \in Threads :
             (pc[w] # "stopped" /\ pc'[w] = "stopped") =>
                 pc[w] = "recv" /\ ~SenderAlive /\ queue = <<>>]_vars
    /\ [][poolState = "dropped" => discarded' = discarded]_vars
    /\ \A j \in JobIds :
          [](poolState = "dropped" /\ InQueue(j) > 0
               => <>(j \in (returned \cup faulted)))
    /\ \A w \in 0..(MaxSize - 1) :
          [](poolState = "dropped" /\ w \in Threads
               => <>(w \in Threads /\ pc[w] \in Terminated))

C20_FaultPoisonsPool ==
    /\ [](faulted # {} =>
             /\ poisoned /\ lock = NoHolder
             /\ \A w \in Threads : pc[w] \in {"spawned", "lock", "panicked"})
    /\ [][faulted # {} =>
             /\ deliveredTo' = deliveredTo /\ runs' = runs
             /\ \A w \in Threads :
                   (pc[w] = "lock" /\ pc'[w] # "lock") =>
                       pc'[w] = "panicked"]_vars
    /\ [](faulted # {} /\ LiveWorkers = {} =>
             /\ queue = <<>>
             /\ \A j \in sent : deliveredTo[j] = {} => j \in discarded)
    /\ [][(faulted # {} /\ LiveWorkers = {} /\ nextJob' # nextJob) =>
             /\ nextJob \in rejected' /\ nextJob \notin sent'
             /\ \E c \in Callers :
                   cpc[c] = "idle" /\ cpc'[c] = "panicked"]_vars

\* After a fault both workers have panicked, a pending job was discarded
\* and a later execute was rejected.
C20_Witness ==
    /\ size = 2
    /\ faulted # {}
    /\ \A w \in Threads : pc[w] = "panicked"
    /\ discarded # {}
    /\ rejected # {}

====
